---- MODULE Spec2Model ----
(***************************************************************************)
(* Model of the Unity DP UPS client (src/unity_dp.py): the session-token   *)
(* lifecycle of UPSLibrary (login, _request), the point reader and writer  *)
(* (get_data, set_data) and the Subsystem facade (get_all, _get_point,     *)
(* _set_point, attribute resolution).                                      *)
(*                                                                         *)
(* The client is single-threaded: one logical operation runs at a time.    *)
(* An operation is one action (set_data: one action per loop iteration);   *)
(* the device's answers are inputs of the action, drawn from small sets.   *)
(* Python strings are TLA+ strings and the text functions (split,          *)
(* startswith, strip, str, float, format) are computed on their text.      *)
(***************************************************************************)
EXTENDS Integers, Sequences, FiniteSets, TLC

VARIABLES
    sessACT,  \* UPSLibrary.sessACT: the stored session token (a Python value)
    pc,       \* "idle" | "set_data" (inside the loop of set_data) | "returned"
    call,     \* the operation running or just returned, with the token before it
    todo,     \* set_data: the (key, value) pairs the loop has still to write
    sent,     \* the HTTP exchanges of this operation, in the order sent
    ret       \* what the operation returned (or raised) to its caller

vars == <<sessACT, pc, call, todo, sent, ret>>

\* ------------------------------------------------------------------ bounds
\* the longest batch handed to set_data
MaxPoints == 2

\* ------------------------------------------------------- Python values
\* A Python value: its type and its str() text.
None == [t |-> "none", v |-> "None"]
PyStr(s) == [t |-> "str", v |-> s]
PyInt(n) == [t |-> "int", v |-> ToString(n)]
PyBool(b) == [t |-> "bool", v |-> IF b THEN "True" ELSE "False"]

\* bool(x), as `not x` / `if x` use it
Truthy(x) ==
    CASE x.t = "none" -> FALSE
      [] x.t = "str" -> x.v # ""
      [] x.t = "int" -> x.v # "0"
      [] x.t = "bool" -> x.v = "True"

\* ------------------------------------------------------- Python str methods
\* s.find(sub, i): the first index >= i at which sub occurs, 0 when none
RECURSIVE Find(_, _, _)
Find(s, sub, i) ==
    IF i + Len(sub) - 1 > Len(s) THEN 0
    ELSE IF SubSeq(s, i, i + Len(sub) - 1) = sub THEN i
    ELSE Find(s, sub, i + 1)

\* sub in s
Contains(s, sub) == Find(s, sub, 1) # 0

\* s.split(sep), i being s.find(sep)
RECURSIVE Split(_, _), SplitAt(_, _, _)
SplitAt(s, sep, i) ==
    IF i = 0 THEN <<s>>
    ELSE <<SubSeq(s, 1, i - 1)>> \o Split(SubSeq(s, i + Len(sep), Len(s)), sep)
Split(s, sep) == SplitAt(s, sep, Find(s, sep, 1))

\* s.split(sep, 1)
SplitOnceAt(s, sep, i) ==
    IF i = 0 THEN <<s>> ELSE <<SubSeq(s, 1, i - 1), SubSeq(s, i + Len(sep), Len(s))>>
SplitOnce(s, sep) == SplitOnceAt(s, sep, Find(s, sep, 1))

\* s.startswith(p)
StartsWith(s, p) == Len(s) >= Len(p) /\ SubSeq(s, 1, Len(p)) = p

\* s.strip(ch) for a one-character ch
RECURSIVE LStrip(_, _)
LStrip(s, ch) ==
    IF Len(s) > 0 /\ SubSeq(s, 1, 1) = ch THEN LStrip(SubSeq(s, 2, Len(s)), ch) ELSE s
RECURSIVE RStrip(_, _)
RStrip(s, ch) ==
    IF Len(s) > 0 /\ SubSeq(s, Len(s), Len(s)) = ch
    THEN RStrip(SubSeq(s, 1, Len(s) - 1), ch) ELSE s
Strip(s, ch) == RStrip(LStrip(s, ch), ch)

\* s[1:]
DropFirst(s) == SubSeq(s, 2, Len(s))

\* ------------------------------------------------------- Python dicts
\* A dict is the sequence of its items [k, v] in insertion order.
DictHas(d, k) == \E i \in 1..Len(d) : d[i].k = k
DictIdx(d, k) == CHOOSE i \in 1..Len(d) : d[i].k = k
DictGet(d, k, dflt) == IF DictHas(d, k) THEN d[DictIdx(d, k)].v ELSE dflt
\* d[k] = v: an existing key keeps its place
DictSet(d, k, v) ==
    IF DictHas(d, k)
    THEN [i \in 1..Len(d) |-> IF d[i].k = k THEN [k |-> k, v |-> v] ELSE d[i]]
    ELSE Append(d, [k |-> k, v |-> v])
\* d.update(e)
RECURSIVE DictUpdate(_, _)
DictUpdate(d, e) ==
    IF e = <<>> THEN d ELSE DictUpdate(DictSet(d, e[1].k, e[1].v), Tail(e))
DictKeys(d) == {d[i].k : i \in 1..Len(d)}

\* ------------------------------------------------------- the device's answers
\* An HTTP answer: a response with a status and a body, or a transport exception.
Exc == [exc |-> TRUE, status |-> 0, text |-> ""]
Resp(status, text) == [exc |-> FALSE, status |-> status, text |-> text]
\* no response at all: _request returned None
NoResp == [exc |-> TRUE, status |-> -1, text |-> ""]

\* the login endpoint
LoginResps ==
    {Exc, Resp(500, "sessACT=T2"), Resp(401, "")}
    \cup {Resp(200, b) : b \in {"", "a=b;sessACT=T1", "sessACT=T1;sessACT=T2"}}
\* the session-info endpoint
InfoResps ==
    {Exc, Resp(500, "sessACT=T2")}
    \cup {Resp(200, b) : b \in {"", "sessACT=T1;sessACT=T2"}}
\* the write endpoint
PostResps ==
    {Exc, Resp(500, "sessACT=T3")}
    \cup {Resp(200, b) : b \in {"", "ok=1;sessACT=T3"}}

\* ------------------------------------------------------- UPSLibrary: session
DevId == 4
LoginPath == "/protected/session/unityLogin.htm"
InfoPath == "/protected/session/getSessionInfo.htm"
GetPath == "/httpGetSet/httpGet.htm"
SetPath == "/protected/httpSet.htm"

\* One HTTP exchange: the request, the answer, and the stored token when the
\* request was sent.
Exchange(method, path, fields, r, before) ==
    [method |-> method, path |-> path, fields |-> fields, resp |-> r, before |-> before]

\* the items of a body that carry a token
TokenItems(text) == SelectSeq(Split(text, ";"), LAMBDA it : StartsWith(it, "sessACT="))
\* item.split('=')[1]
TokenOf(item) == Split(item, "=")[2]

\* the 'sessACT=' items of an answer that is a 200 response
OkTokenItems(r) == IF ~r.exc /\ r.status = 200 THEN TokenItems(r.text) ELSE <<>>

\* login(): the first 'sessACT=' item of a 200 body is stored; its being the
\* 'sessACT=' items of the answer
login_store(tok, r, its) ==
    [tok |-> IF its # <<>> THEN PyStr(TokenOf(its[1])) ELSE tok,
     ret |-> its # <<>>,
     log |-> <<Exchange("GET", LoginPath, <<[k |-> "devId", v |-> PyInt(DevId)]>>, r, tok)>>]
login(tok, r) == login_store(tok, r, OkTokenItems(r))

\* mutant of ParseToken: the status of the answer is not looked at
ParseTokenAnyStatus(tok, r) ==
    IF r.exc \/ TokenItems(r.text) = <<>> THEN tok
    ELSE PyStr(TokenOf(TokenItems(r.text)[Len(TokenItems(r.text))]))

\* the loops of _request over a 200 body: every 'sessACT=' item is stored in turn
LastToken(tok, its) == IF its = <<>> THEN tok ELSE PyStr(TokenOf(its[Len(its)]))
ParseToken(tok, r) == LastToken(tok, OkTokenItems(r))

\* mutant of login_gate: login() is called whether or not a token is held
login_gate_always(tok, rl) == login(tok, rl)

\* _request, the login gate: login() is called when no token is held
login_gate(tok, rl) ==
    IF Truthy(tok) THEN [tok |-> tok, ret |-> TRUE, log |-> <<>>] ELSE login(tok, rl)

\* _request, the real call: t2 is the token after the refresh, t3 the token after
\* the real call
request_send(gate, t2, t3, method, path, fields, ri, rr) ==
    [tok |-> t3,
     resp |-> IF ~rr.exc /\ rr.status = 200 THEN rr ELSE NoResp,
     log |-> gate.log
             \o << Exchange("GET", InfoPath,
                            <<[k |-> "devId", v |-> PyInt(DevId)],
                              [k |-> "sessACT", v |-> gate.tok],
                              [k |-> "action", v |-> PyInt(0)]>>, ri, gate.tok),
                   Exchange(method, path, DictSet(fields, "sessACT", t2), rr, t2) >>]

\* mutant of request_refresh: the real call carries the token held before the
\* refresh
request_refresh_stale(gate, t2, method, path, fields, ri, rr) ==
    request_send(gate, gate.tok, ParseToken(gate.tok, rr), method, path, fields, ri, rr)

\* _request, the proactive refresh: t2 is the token after it
request_refresh(gate, t2, method, path, fields, ri, rr) ==
    request_send(gate, t2, ParseToken(t2, rr), method, path, fields, ri, rr)

\* _request after the login gate
request_gated(gate, method, path, fields, ri, rr) ==
    IF ~gate.ret THEN [tok |-> gate.tok, resp |-> NoResp, log |-> gate.log]
    ELSE request_refresh(gate, ParseToken(gate.tok, ri), method, path, fields, ri, rr)

\* _request(method, path, params=|data=fields) with the answers rl (login, used
\* only when login is called), ri (session info) and rr (the real call)
request(tok, method, path, fields, rl, ri, rr) ==
    request_gated(login_gate(tok, rl), method, path, fields, ri, rr)

\* ------------------------------------------------------- UPSLibrary: writer
\* the data dict set_data builds for one point
EncodeData(pnt_id, prefix, val, devId) ==
    <<[k |-> "devId", v |-> PyInt(devId)], [k |-> "begin", v |-> PyStr("http~set~begin")]>>
    \o DictSet(DictSet(<<>>, prefix \o pnt_id,
                       PyStr((IF prefix = "commBtn" THEN "{0}" ELSE "")
                             \o "vel~pnt~" \o pnt_id \o "~0|val~"
                             \o (IF prefix = "commBtn" THEN "num" ELSE "str")
                             \o "~" \o val)),
               "end", PyStr("http~set~end"))
\* is_cmd: v_str holds the command delimiter
EncodeValue(pnt_id, v, is_cmd, devId) ==
    EncodeData(pnt_id, IF is_cmd \/ v.t # "str" THEN "commBtn" ELSE "str",
               IF is_cmd THEN Split(v.v, "!~")[1] ELSE v.v, devId)
EncodePoint(k, v, devId) ==
    EncodeValue(IF StartsWith(k, "v") THEN DropFirst(k) ELSE k, v, Contains(v.v, "!~"), devId)

\* set_data, one iteration of its loop: the POST of one point
set_data_point(tok, k, v, devId, rl, ri, rr) ==
    request(tok, "POST", SetPath, EncodePoint(k, v, devId), rl, ri, rr)

\* ------------------------------------------------------- UPSLibrary: reader
\* f'vel~pnt~{v[1:]}'
Descriptor(pnt) == "vel~pnt~" \o DropFirst(pnt)

\* the dict comprehension of get_data over the parts of a body; kv is
\* part.split('=', 1), of two elements exactly when '=' is in part
ParsePart(acc, part, kv) ==
    IF Len(kv) = 2 THEN DictSet(acc, kv[1], PyStr(Strip(kv[2], "\""))) ELSE acc
RECURSIVE ParseParts(_, _)
ParseParts(parts, acc) ==
    IF parts = <<>> THEN acc
    ELSE ParseParts(Tail(parts), ParsePart(acc, Head(parts), SplitOnce(Head(parts), "=")))

\* get_data(points, devId): one GET for all the points; {} when the request failed
get_data_parse(R) ==
    [tok |-> R.tok, log |-> R.log,
     data |-> IF R.resp = NoResp THEN <<>> ELSE ParseParts(Split(R.resp.text, ";"), <<>>)]
get_data(tok, points, devId, rl, ri, rr) ==
    get_data_parse(request(tok, "GET", GetPath,
                           DictUpdate(<<[k |-> "devId", v |-> PyInt(devId)]>>, points),
                           rl, ri, rr))

\* ------------------------------------------------------- value processors
\* float(x) for the texts the device sends here: decimal digits with at most
\* one point; any other text, None and a dict raise (ok = FALSE).
DigitVal(c) == Find("0123456789", c, 1) - 1
RECURSIVE ParseDigits(_, _, _, _)
ParseDigits(s, n, d, dot) ==
    IF s = "" THEN [ok |-> TRUE, n |-> n, d |-> d]
    ELSE LET c == SubSeq(s, 1, 1)
             rest == SubSeq(s, 2, Len(s))
         IN IF c = "." THEN (IF dot THEN [ok |-> FALSE, n |-> 0, d |-> 1]
                             ELSE ParseDigits(rest, n, d, TRUE))
            ELSE IF DigitVal(c) < 0 THEN [ok |-> FALSE, n |-> 0, d |-> 1]
            ELSE ParseDigits(rest, 10 * n + DigitVal(c), IF dot THEN 10 * d ELSE d, dot)
ToFloat(x) ==
    IF x.t = "int" THEN ParseDigits(x.v, 0, 1, FALSE)
    ELSE IF x.t = "str" /\ x.v # "" /\ x.v # "." THEN ParseDigits(x.v, 0, 1, FALSE)
    ELSE [ok |-> FALSE, n |-> 0, d |-> 1]

\* f"{n / d:.2f}" for n >= 0, d > 0 (an exact tie goes to the even digit)
Format2f(n, d) ==
    LET q == (100 * n) \div d
        r == (100 * n) % d
        h == IF 2 * r > d \/ (2 * r = d /\ q % 2 = 1) THEN q + 1 ELSE q
        frac == h % 100
    IN ToString(h \div 100) \o "." \o (IF frac < 10 THEN "0" ELSE "") \o ToString(frac)

\* res.get(k, 0) of a result under construction (a nested dict is no number)
NoNumber == [t |-> "none", v |-> "dict"]
ResGet(res, k) ==
    IF ~DictHas(res, k) THEN PyInt(0)
    ELSE IF res[DictIdx(res, k)].v.d THEN NoNumber
    ELSE res[DictIdx(res, k)].v.val

\* proc_pf(v, res): the power factor from the sibling watts and va
proc_pf_derive(v, w, va) ==
    IF w.ok /\ va.ok /\ va.n > 0 THEN PyStr(Format2f(w.n * va.d, w.d * va.n)) ELSE v
proc_pf(v, res) ==
    IF Truthy(v) /\ v # PyStr("--") /\ v # PyStr("") THEN v
    ELSE proc_pf_derive(v, ToFloat(ResGet(res, "watts")), ToFloat(ResGet(res, "va")))

\* proc_source(v, res): the label of a source code
source_map(c) ==
    CASE c = "1" -> "Other"
      [] c \in {"3", "6", "7"} -> "Normal"
      [] c = "4" -> "Bypass"
      [] c = "5" -> "Battery"
      [] OTHER -> "Unknown (" \o c \o ")"
proc_source(v, res) ==
    IF Truthy(v) /\ v # PyStr("--") THEN PyStr(source_map(v.v)) ELSE v

\* self._processors[name](val, res)
ApplyProcessor(fn, v, res) ==
    CASE fn = "proc_pf" -> proc_pf(v, res)
      [] fn = "proc_source" -> proc_source(v, res)

\* ------------------------------------------------------- the point maps
\* A mapping is a dict name -> node; a node is a point identifier or a nested
\* mapping.
Pnt(k, p) == [k |-> k, v |-> [d |-> FALSE, p |-> p, sub |-> <<>>]]
Cat(k, m) == [k |-> k, v |-> [d |-> TRUE, p |-> "", sub |-> m]]

SystemMap ==
    << Cat("status", << Pnt("firmware_version", "v4335"), Pnt("manufacturer", "v4333"),
                        Pnt("model_number", "v4240"), Pnt("serial_number", "v4244"),
                        Pnt("manufacture_date", "v6215"), Pnt("inlet_temperature", "v4291"),
                        Pnt("ups_topology", "v6199"), Pnt("ups_source", "v4872"),
                        Pnt("black_out_count", "v4120"), Pnt("brown_out_count", "v4119"),
                        Pnt("system_name", "v4246") >>),
       Cat("event", << Pnt("loss_of_redundancy", "v4825") >>),
       Cat("settings", << Pnt("site_identifier", "v4247"), Pnt("auto_restart", "v5831"),
                          Pnt("auto_restart_delay", "v4710"),
                          Pnt("site_equipment_tag", "v4248"), Pnt("system_name", "v4246"),
                          Pnt("audible_alarm_control", "v5830") >>) >>

BatteryMap ==
    << Cat("status", << Pnt("charge", "v4153"), Pnt("time_remaining", "v4150"),
                        Pnt("charge_status", "v5799"), Pnt("dc_bus_voltage", "v4148"),
                        Pnt("charger_state", "v6192"), Pnt("test_result", "v6181"),
                        Pnt("status", "v4871") >>),
       Cat("event", << Pnt("low", "v4162") >>),
       Cat("settings", << Pnt("low_battery_warning_time", "v5802") >>) >>

InputMap ==
    << Cat("status", << Pnt("voltage_ln", "v4096"), Pnt("current_amps", "v4113"),
                        Pnt("frequency_hz", "v4105"), Pnt("max_voltage_ln", "v4106"),
                        Pnt("min_voltage_ln", "v4107"), Pnt("nominal_voltage", "v4102") >>),
       Cat("event", << Pnt("undervoltage", "v5568") >>) >>

OutputMap ==
    << Cat("status", << Pnt("voltage_ln", "v4385"), Pnt("amps", "v4204"),
                        Pnt("watts", "v4208"), Pnt("va", "v4209"),
                        Pnt("load_percent", "v5861"), Pnt("pf", "v4212"),
                        Pnt("frequency", "v4207") >>),
       Cat("event", << Pnt("overload", "v4215") >>) >>

BypassMap ==
    << Pnt("bypass_voltage", "v4128"), Pnt("bypass_current", "v5570"),
       Pnt("bypass_frequency", "v4131"), Pnt("bypass_nominal_voltage", "v4259"),
       Pnt("bypass_not_available", "v4135") >>

SystemProcessors == << [k |-> "ups_source", v |-> "proc_source"] >>
OutputProcessors == << [k |-> "pf", v |-> "proc_pf"] >>

\* ------------------------------------------------------- Subsystem
\* Subsystem.__init__: _flat_points, the mapping flattened by one level
RECURSIVE FlatPoints(_, _)
FlatPoints(mapping, acc) ==
    IF mapping = <<>> THEN acc
    ELSE LET e == Head(mapping)
         IN FlatPoints(Tail(mapping),
                       IF e.v.d THEN DictUpdate(acc, e.v.sub) ELSE DictSet(acc, e.k, e.v))

\* the attributes the classes declare: point_prop names and category properties
\* (name -> class of the view returned)
PointProps(cls) ==
    CASE cls = "SystemStatus" ->
           {"firmware_version", "manufacturer", "model_number", "serial_number",
            "manufacture_date", "inlet_temperature", "ups_topology", "ups_source",
            "black_out_count", "brown_out_count", "system_name"}
      [] cls = "SystemSettings" ->
           {"site_identifier", "site_equipment_tag", "system_name", "auto_restart",
            "auto_restart_delay", "audible_alarm_control"}
      [] cls = "SystemSubsystem" -> {"firmware_version", "site_identifier"}
      [] cls = "BatteryStatus" ->
           {"charge", "time_remaining", "charge_status", "dc_bus_voltage",
            "charger_state", "test_result", "status"}
      [] cls = "BatterySettings" -> {"low_battery_warning_time"}
      [] cls = "BatterySubsystem" -> {"charge", "time_remaining"}
      [] cls = "InputStatus" ->
           {"voltage_ln", "current_amps", "frequency_hz", "max_voltage_ln",
            "min_voltage_ln", "nominal_voltage"}
      [] cls = "InputSubsystem" -> {"voltage_ln"}
      [] cls = "OutputStatus" ->
           {"voltage_ln", "amps", "watts", "va", "load_percent", "pf", "frequency"}
      [] cls = "OutputSubsystem" -> {"voltage_ln", "load_percent"}
      [] cls = "BypassSubsystem" ->
           {"bypass_voltage", "bypass_current", "bypass_frequency",
            "bypass_nominal_voltage", "bypass_not_available"}
      [] OTHER -> {}
CategoryProps(cls) ==
    CASE cls = "SystemSubsystem" ->
           << [k |-> "status", v |-> "SystemStatus"], [k |-> "event", v |-> "Subsystem"],
              [k |-> "settings", v |-> "SystemSettings"] >>
      [] cls = "BatterySubsystem" ->
           << [k |-> "status", v |-> "BatteryStatus"], [k |-> "event", v |-> "Subsystem"],
              [k |-> "settings", v |-> "BatterySettings"] >>
      [] cls = "InputSubsystem" ->
           << [k |-> "status", v |-> "InputStatus"], [k |-> "event", v |-> "Subsystem"] >>
      [] cls = "OutputSubsystem" ->
           << [k |-> "status", v |-> "OutputStatus"], [k |-> "event", v |-> "Subsystem"] >>
      [] OTHER -> <<>>

\* A view: Subsystem(ups, mapping, dev_id, processors) of some class
View(path, cls, mapping, processors) ==
    [path |-> path, cls |-> cls, mapping |-> mapping, dev_id |-> 0,
     processors |-> processors, flat_points |-> FlatPoints(mapping, <<>>)]

\* the five subsystems UPSLibrary.__init__ builds
Subsystems ==
    { View("system", "SystemSubsystem", SystemMap, SystemProcessors),
      View("battery", "BatterySubsystem", BatteryMap, <<>>),
      View("input", "InputSubsystem", InputMap, <<>>),
      View("output", "OutputSubsystem", OutputMap, OutputProcessors),
      View("bypass", "BypassSubsystem", BypassMap, <<>>) }

\* a value of a result: a leaf value or a nested result
Leaf(val) == [d |-> FALSE, val |-> val, sub |-> <<>>]
Nested(res) == [d |-> TRUE, val |-> None, sub |-> res]

\* get_all: the query over the flat points that are point identifiers
RECURSIVE BuildQuery(_, _)
BuildQuery(flat, acc) ==
    IF flat = <<>> THEN acc
    ELSE LET n == Head(flat).v
         IN BuildQuery(Tail(flat),
                       IF ~n.d /\ StartsWith(n.p, "v")
                       THEN DictSet(acc, n.p, PyStr(Descriptor(n.p))) ELSE acc)

\* mutant of process_leaf: the processor gets an empty result, not the siblings
process_leaf_alone(k, p, raw, res, data, processors) ==
    IF DictHas(processors, k)
    THEN ApplyProcessor(DictGet(processors, k, ""),
                        DictGet(data, p, IF raw = PyStr("No Support") THEN PyStr("--") ELSE raw),
                        <<>>)
    ELSE DictGet(data, p, IF raw = PyStr("No Support") THEN PyStr("--") ELSE raw)

\* get_all.process_dict, the value of one leaf: raw is data.get(v)
process_leaf(k, p, raw, res, data, processors) ==
    IF DictHas(processors, k)
    THEN ApplyProcessor(DictGet(processors, k, ""),
                        DictGet(data, p, IF raw = PyStr("No Support") THEN PyStr("--") ELSE raw),
                        res)
    ELSE DictGet(data, p, IF raw = PyStr("No Support") THEN PyStr("--") ELSE raw)

\* mutant of process_dict: the leaves of a nested mapping are put in the result
\* itself
RECURSIVE process_dict_flat(_, _, _, _)
process_dict_flat(d, res, data, processors) ==
    IF d = <<>> THEN res
    ELSE process_dict_flat(
           Tail(d),
           IF Head(d).v.d
           THEN process_dict_flat(Head(d).v.sub, res, data, processors)
           ELSE DictSet(res, Head(d).k,
                        Leaf(process_leaf(Head(d).k, Head(d).v.p,
                                          DictGet(data, Head(d).v.p, None),
                                          res, data, processors))),
           data, processors)

\* get_all.process_dict(d): the loop over d.items(), res being the result so far
RECURSIVE process_dict(_, _, _, _)
process_dict(d, res, data, processors) ==
    IF d = <<>> THEN res
    ELSE process_dict(
           Tail(d),
           DictSet(res, Head(d).k,
                   IF Head(d).v.d
                   THEN Nested(process_dict(Head(d).v.sub, <<>>, data, processors))
                   ELSE Leaf(process_leaf(Head(d).k, Head(d).v.p,
                                          DictGet(data, Head(d).v.p, None),
                                          res, data, processors))),
           data, processors)

\* Subsystem.get_all()
get_all_result(view, G) ==
    [tok |-> G.tok, log |-> G.log,
     res |-> IF G.data = <<>> THEN <<>>
             ELSE process_dict(view.mapping, <<>>, G.data, view.processors)]
get_all(view, tok, rl, ri, rr) ==
    get_all_result(view, get_data(tok, BuildQuery(view.flat_points, <<>>), view.dev_id,
                                  rl, ri, rr))

\* Subsystem._get_point(name), for a name of _flat_points: val after the
\* placeholder has replaced 'No Support'
get_point_processed(view, name, G, val) ==
    [tok |-> G.tok, log |-> G.log,
     val |-> IF DictHas(view.processors, name)
             THEN ApplyProcessor(DictGet(view.processors, name, ""), val, <<>>)
             ELSE val]
\* mutant of get_point_value: 'No Support' is returned as it is
get_point_value_raw(view, name, G, val) == get_point_processed(view, name, G, val)
get_point_value(view, name, G, val) ==
    get_point_processed(view, name, G, IF val = PyStr("No Support") THEN PyStr("--") ELSE val)
get_point_data(view, name, pnt, G) ==
    get_point_value(view, name, G, IF G.data # <<>> THEN DictGet(G.data, pnt, None) ELSE None)
get_point_query(view, name, pnt, tok, rl, ri, rr) ==
    get_point_data(view, name, pnt,
                   get_data(tok, <<[k |-> pnt, v |-> PyStr(Descriptor(pnt))]>>, view.dev_id,
                            rl, ri, rr))
get_point(view, name, tok, rl, ri, rr) ==
    get_point_query(view, name, DictGet(view.flat_points, name, Pnt("", "").v).p,
                    tok, rl, ri, rr)

\* Subsystem._set_point(name, value), for a name of _flat_points
set_point(view, name, value, tok, rl, ri, rr) ==
    set_data_point(tok, DictGet(view.flat_points, name, Pnt("", "").v).p,
                   IF value.t = "bool" THEN PyInt(IF value.v = "True" THEN 1 ELSE 0) ELSE value,
                   view.dev_id, rl, ri, rr)

\* view.<name>: a declared property first, then Subsystem.__getattr__.
\* "point": the read of _get_point; "category": a view of the nested mapping;
\* "raise": AttributeError.
Resolve(view, name) ==
    IF name \in PointProps(view.cls) /\ DictHas(view.flat_points, name)
    THEN [kind |-> "point", cls |-> ""]
    ELSE IF DictHas(CategoryProps(view.cls), name)
    THEN [kind |-> "category", cls |-> DictGet(CategoryProps(view.cls), name, "")]
    ELSE IF DictHas(view.flat_points, name)
    THEN [kind |-> "point", cls |-> ""]
    ELSE IF DictHas(view.mapping, name) /\ DictGet(view.mapping, name, Pnt("", "").v).d
    THEN [kind |-> "category", cls |-> "Subsystem"]
    ELSE [kind |-> "raise", cls |-> ""]

\* the view a category access returns
CategoryView(view, name) ==
    View(view.path \o "." \o name, Resolve(view, name).cls,
         DictGet(view.mapping, name, Pnt("", "").v).sub, view.processors)

\* every view a caller can hold: the subsystems and their categories
Views ==
    Subsystems \cup
    UNION { { CategoryView(s, c) :
                c \in {n \in DictKeys(s.mapping) : Resolve(s, n).kind = "category"} } :
            s \in Subsystems }
ViewAt(path) == CHOOSE w \in Views : w.path = path

\* ------------------------------------------------------- the read endpoint
\* What the device holds for a point: a raw text, or nothing (the point is left
\* out of the body).
Val(s) == [has |-> TRUE, raw |-> s]
Missing == [has |-> FALSE, raw |-> ""]

\* the points the processors read, with the values tried for each
WattsPnt == "v4208"
VaPnt == "v4209"
PfPnt == "v4212"
SourcePnt == "v4872"
SpecialPnts == {WattsPnt, VaPnt, PfPnt, SourcePnt}
PointVals(p) ==
    CASE p = WattsPnt -> {Val("120"), Val("100"), Val("No Support"), Missing}
      [] p = VaPnt -> {Val("150"), Val("0"), Missing}
      [] p = PfPnt -> {Val("0.95"), Val(""), Val("--"), Val("No Support"), Missing}
      [] p = SourcePnt -> {Val("3"), Val("4"), Val("9"), Val("--"), Missing}
      [] OTHER -> {Val("7")}
\* the values tried for all points at once
CommonVals == {Val("7"), Val("No Support"), Val(""), Missing}

\* the device's values for the points of a query: the special points vary one
\* by one beside plain values; or all points hold the same value, but for the
\* first point of the query, which may be left out
Profiles(pnts) ==
    LET P == {pnts[i] : i \in 1..Len(pnts)}
        S == P \cap SpecialPnts
        all == UNION {PointVals(p) : p \in S}
    IN { [p \in P |-> IF p \in S THEN g[p] ELSE Val("7")] :
           g \in {h \in [S -> all] : \A p \in S : h[p] \in PointVals(p)} }
       \cup { [p \in P |-> IF hole /\ p = pnts[1] THEN Missing ELSE d] :
                d \in CommonVals, hole \in BOOLEAN }

\* the body of the read endpoint: pnt="raw"; for every point it holds
RECURSIVE Render(_, _)
Render(pnts, f) ==
    IF pnts = <<>> THEN ""
    ELSE (IF f[Head(pnts)].has
          THEN Head(pnts) \o "=\"" \o f[Head(pnts)].raw \o "\";" ELSE "")
         \o Render(Tail(pnts), f)

\* the answers of the read endpoint to a query of pnts
ReadResps(pnts) ==
    {Exc, Resp(500, "")}
    \cup { Resp(200, Render(pnts, f)) : f \in Profiles(pnts) }
    \cup { Resp(200, "sessACT=T3;" \o Render(pnts, [p \in DOMAIN f |-> d])) :
             f \in Profiles(pnts), d \in {Val("7"), Missing} }

\* the point identifiers of a dict of points, in order
KeySeq(d) == [i \in 1..Len(d) |-> d[i].k]

\* the answers tried for the login of a _request: login is called only when no
\* token is held
LoginRespsFor(tok, resps) == IF Truthy(tok) THEN {Exc} ELSE resps

\* the answers of the session endpoints tried beside the reads through a view
ViewLoginResps == {Exc, Resp(200, "a=b;sessACT=T1")}
ViewInfoResps == {Exc, Resp(200, "sessACT=T1;sessACT=T2")}

\* ------------------------------------------------------- operations
NoCall == [op |-> "none", view |-> "", name |-> "", value |-> None, batch |-> <<>>,
           tok0 |-> None]
NoRet == [kind |-> "none"]

Init ==
    /\ sessACT = None
    /\ pc = "idle"
    /\ call = NoCall
    /\ todo = <<>>
    /\ sent = <<>>
    /\ ret = NoRet

\* ups.login()
Login ==
    /\ pc = "idle"
    /\ \E r \in LoginResps :
         LET L == login(sessACT, r)
         IN /\ sessACT' = L.tok
            /\ sent' = L.log
            /\ ret' = [kind |-> "bool", b |-> L.ret]
    /\ call' = [NoCall EXCEPT !.op = "login", !.tok0 = sessACT]
    /\ pc' = "returned"
    /\ todo' = <<>>

\* the caller takes the result; the client is ready for the next operation
Return ==
    /\ pc = "returned"
    /\ pc' = "idle"
    /\ call' = NoCall
    /\ sent' = <<>>
    /\ ret' = NoRet
    /\ todo' = <<>>
    /\ UNCHANGED sessACT

\* every attribute name of some view, and one that no view has
Names ==
    UNION { DictKeys(w.flat_points) \cup DictKeys(w.mapping) : w \in Views }
    \cup {"no_such_point"}

\* view.<name>: a point read, a category view, or AttributeError
GetAttr ==
    /\ pc = "idle"
    /\ \E w \in Views, name \in Names :
         LET how == Resolve(w, name)
         IN /\ call' = [NoCall EXCEPT !.op = "getattr", !.view = w.path, !.name = name,
                                      !.tok0 = sessACT]
            /\ IF how.kind = "point"
               THEN \E rl \in LoginRespsFor(sessACT, ViewLoginResps), ri \in ViewInfoResps,
                       rr \in ReadResps(<<DictGet(w.flat_points, name, Pnt("", "").v).p>>) :
                      LET G == get_point(w, name, sessACT, rl, ri, rr)
                      IN /\ sessACT' = G.tok
                         /\ sent' = G.log
                         /\ ret' = [kind |-> "value", val |-> G.val]
               ELSE /\ ret' = IF how.kind = "category"
                              THEN [kind |-> "view", path |-> CategoryView(w, name).path]
                              ELSE [kind |-> "raise", exc |-> "AttributeError"]
                    /\ sent' = <<>>
                    /\ UNCHANGED sessACT
    /\ pc' = "returned"
    /\ todo' = <<>>

\* view.get_all()
GetAll ==
    /\ pc = "idle"
    /\ \E w \in Views :
         /\ call' = [NoCall EXCEPT !.op = "get_all", !.view = w.path, !.tok0 = sessACT]
         /\ \E rl \in LoginRespsFor(sessACT, ViewLoginResps), ri \in ViewInfoResps,
               rr \in ReadResps(KeySeq(BuildQuery(w.flat_points, <<>>))) :
              LET G == get_all(w, sessACT, rl, ri, rr)
              IN /\ sessACT' = G.tok
                 /\ sent' = G.log
                 /\ ret' = [kind |-> "dict", res |-> G.res]
    /\ pc' = "returned"
    /\ todo' = <<>>

\* the values a caller writes
WriteValues ==
    {PyStr("Main Rack"), PyStr(""), PyStr("1!~Start Test"), PyStr("True"),
     PyBool(TRUE), PyBool(FALSE), PyInt(30)}
\* the values written through a view
SettingValues == {PyStr("Main Rack"), PyBool(TRUE), PyBool(FALSE), PyInt(30)}
\* the names written through a view: the settings
SettingNames ==
    UNION { DictKeys(w.flat_points) :
              w \in {x \in Views : x.cls \in {"SystemSettings", "BatterySettings"}} }

\* view.<name> = value through the declared property: _set_point
SetPoint ==
    /\ pc = "idle"
    /\ \E w \in Views, name \in SettingNames, value \in SettingValues :
         /\ name \in PointProps(w.cls)
         /\ call' = [NoCall EXCEPT !.op = "set_point", !.view = w.path, !.name = name,
                                   !.value = value, !.tok0 = sessACT]
         /\ IF DictHas(w.flat_points, name)
            THEN \E rl \in LoginRespsFor(sessACT, LoginResps), ri \in InfoResps,
                    rr \in PostResps :
                   LET R == set_point(w, name, value, sessACT, rl, ri, rr)
                   IN /\ sessACT' = R.tok
                      /\ sent' = R.log
                      /\ ret' = [kind |-> "value", val |-> None]
            ELSE /\ ret' = [kind |-> "raise", exc |-> "AttributeError"]
                 /\ sent' = <<>>
                 /\ UNCHANGED sessACT
    /\ pc' = "returned"
    /\ todo' = <<>>

\* ups.get_data(points, devId) for the query of one point
GetData ==
    /\ pc = "idle"
    /\ \E pnt \in {"v4153"} :
         /\ call' = [NoCall EXCEPT !.op = "get_data",
                                   !.batch = <<[k |-> pnt, v |-> PyStr(Descriptor(pnt))]>>,
                                   !.tok0 = sessACT]
         /\ \E rl \in LoginRespsFor(sessACT, LoginResps), ri \in InfoResps,
               rr \in ReadResps(<<pnt>>) :
              LET G == get_data(sessACT, <<[k |-> pnt, v |-> PyStr(Descriptor(pnt))]>>, 0,
                                rl, ri, rr)
              IN /\ sessACT' = G.tok
                 /\ sent' = G.log
                 /\ ret' = [kind |-> "dict", res |-> G.data]
    /\ pc' = "returned"
    /\ todo' = <<>>

\* the keys and values of the batches handed to set_data
WriteKeys == <<"v4247", "v4248", "v4246", "v5831", "v4710">>
BatchValues ==
    <<PyStr("Main Rack"), PyStr("Tag 7"), PyStr("UPS 1"), PyInt(1), PyInt(30)>>
Item(k, v) == [k |-> k, v |-> v]
\* battery_test, output_on/off/reboot(delay), silence_alarm, abort, reset_power_stats
Commands ==
    { <<Item("v5858", PyStr("1!~Start Test"))>>, <<Item("v6257", PyStr("1!~Silence"))>>,
      <<Item("v6200", PyStr("1!~Abort"))>>, <<Item("v6216", PyStr("1!~Reset"))>>,
      <<Item("v5814", PyStr(ToString(0) \o "!~OFF"))>>,
      <<Item("v5815", PyStr(ToString(0) \o "!~Reboot"))>> }
    \cup { <<Item("v5816", PyStr(ToString(delay) \o "!~ON"))>> : delay \in {0, 5} }
\* the batches: the commands, every value for one point (with and without the
\* leading v of its key), and the batches of the first n keys, n up to MaxPoints
Batches ==
    Commands
    \cup { <<Item(WriteKeys[1], v)>> : v \in WriteValues }
    \cup { <<Item("5802", PyInt(30))>> }
    \cup { [i \in 1..n |-> Item(WriteKeys[i], BatchValues[i])] : n \in 0..MaxPoints }

\* ups.set_data(points): the call
SetDataCall ==
    /\ pc = "idle"
    /\ \E b \in Batches :
         /\ call' = [NoCall EXCEPT !.op = "set_data", !.batch = b, !.tok0 = sessACT]
         /\ todo' = b
    /\ pc' = "set_data"
    /\ sent' = <<>>
    /\ UNCHANGED <<sessACT, ret>>

\* mutant of SetDataPoint: the loop goes on after a failed _request
SetDataPointNoStop ==
    /\ pc = "set_data"
    /\ todo # <<>>
    /\ \E rl \in LoginRespsFor(sessACT, LoginResps), ri \in InfoResps, rr \in PostResps :
         LET R == set_data_point(sessACT, Head(todo).k, Head(todo).v, 0, rl, ri, rr)
         IN /\ sessACT' = R.tok
            /\ sent' = sent \o R.log
    /\ todo' = Tail(todo)
    /\ UNCHANGED <<call, ret, pc>>

\* set_data: one iteration of the loop; a failed _request returns False
SetDataPoint ==
    /\ pc = "set_data"
    /\ todo # <<>>
    /\ \E rl \in LoginRespsFor(sessACT, LoginResps), ri \in InfoResps, rr \in PostResps :
         LET R == set_data_point(sessACT, Head(todo).k, Head(todo).v, 0, rl, ri, rr)
         IN /\ sessACT' = R.tok
            /\ sent' = sent \o R.log
            /\ IF R.resp = NoResp
               THEN /\ ret' = [kind |-> "bool", b |-> FALSE]
                    /\ pc' = "returned"
                    /\ todo' = todo
               ELSE /\ todo' = Tail(todo)
                    /\ UNCHANGED <<ret, pc>>
    /\ UNCHANGED call

\* set_data: the loop is over; every point was written
SetDataDone ==
    /\ pc = "set_data"
    /\ todo = <<>>
    /\ ret' = [kind |-> "bool", b |-> TRUE]
    /\ pc' = "returned"
    /\ UNCHANGED <<sessACT, call, todo, sent>>

Next ==
    \/ Login
    \/ GetData
    \/ SetPoint
    \/ SetDataCall
    \/ SetDataPoint
    \/ SetDataDone
    \/ Return

Spec == Init /\ [][Next]_vars

\* the reads through the views
NextView ==
    \/ Login
    \/ GetAttr
    \/ GetAll
    \/ Return

SpecView == Init /\ [][NextView]_vars

\* ------------------------------------------------------- properties
\* What the bodies tried here carry, read off their text: the tokens of the
\* 'sessACT=' items of a body, in order.
BodyTokens(text) ==
    CASE text = "a=b;sessACT=T1" -> <<"T1">>
      [] text = "sessACT=T1;sessACT=T2" -> <<"T1", "T2">>
      [] text = "sessACT=T2" -> <<"T2">>
      [] text = "ok=1;sessACT=T3" -> <<"T3">>
      [] Len(text) >= 11 /\ SubSeq(text, 1, 11) = "sessACT=T3;" -> <<"T3">>
      [] OTHER -> <<>>
Is200(r) == ~r.exc /\ r.status = 200
IsLogin(e) == e.path = LoginPath
IsInfo(e) == e.path = InfoPath
IsReal(e) == e.path \in {GetPath, SetPath}
Paths == [i \in 1..Len(sent) |-> sent[i].path]
\* an operation that is one login() or one _request, returned
ReturnedLogin == pc = "returned" /\ call.op = "login"
ReturnedRequest ==
    /\ pc = "returned"
    /\ \/ call.op \in {"get_data", "set_point"}
       \/ call.op = "set_data" /\ Len(call.batch) = 1
\* the stored token once the answer of exchange i had been handled
TokenAfter(i) == IF i = Len(sent) THEN sessACT ELSE sent[i + 1].before

\* C1: after a login() that fails, whatever token was held before it, the client
\* holds no session token (so that the next request() logs in first).
C1_FailedLoginLeavesNoToken ==
    (ReturnedLogin /\ ~ret.b) => ~Truthy(sessACT)

\* C2: when a request() made with a held token fails (the real call is not a 200
\* response), the session token is invalidated.
C2_FailedRequestInvalidatesToken ==
    (ReturnedRequest /\ Truthy(call.tok0) /\ ~Is200(sent[Len(sent)].resp))
        => ~Truthy(sessACT)

\* C3 as claimed: every logical operation sends at most two HTTP requests, from
\* any token state.
C3_AtMostTwoRequests ==
    (ReturnedLogin \/ ReturnedRequest) => Len(sent) <= 2

\* C3 as amended: login() sends exactly one request; a single read or
\* single-point write sends the refresh and the real call when a token is held,
\* and when none is held the login alone (it failed) or the login, the refresh
\* and the real call: three requests at most.
C3_AtMostThreeRequests ==
    /\ ReturnedLogin => Paths = <<LoginPath>>
    /\ ReturnedRequest =>
         LET realPath == IF call.op = "get_data" THEN GetPath ELSE SetPath
         IN IF Truthy(call.tok0)
            THEN Paths = <<InfoPath, realPath>>
            ELSE Paths \in {<<LoginPath>>, <<LoginPath, InfoPath, realPath>>}
C3_Witness ==
    ReturnedRequest /\ ~Truthy(call.tok0) /\ Len(sent) = 3

\* C4: in every request() that gets past the login gate the session-info refresh
\* is sent, then the real call, exactly once whatever the refresh answered; the
\* real call carries the token stored after the refresh: the token of the
\* refresh's 200 body if it has one, else the token held before the refresh.
RefreshedToken(e) ==
    IF Is200(e.resp) /\ BodyTokens(e.resp.text) # <<>>
    THEN PyStr(BodyTokens(e.resp.text)[Len(BodyTokens(e.resp.text))])
    ELSE e.before
GatePassed ==
    \/ Truthy(call.tok0)
    \/ Is200(sent[1].resp) /\ BodyTokens(sent[1].resp.text) # <<>>
C4_RefreshThenRealCall ==
    /\ \A i \in 1..Len(sent) :
         /\ IsInfo(sent[i]) =>
              /\ i < Len(sent)
              /\ IsReal(sent[i + 1])
              /\ DictGet(sent[i + 1].fields, "sessACT", None) = RefreshedToken(sent[i])
         /\ IsReal(sent[i]) => i > 1 /\ IsInfo(sent[i - 1])
    /\ ReturnedRequest =>
         (GatePassed <=> \E i \in 1..Len(sent) : IsInfo(sent[i]))
C4_Witness ==
    /\ ReturnedRequest
    /\ \E i \in 1..Len(sent) :
         /\ IsInfo(sent[i])
         /\ sent[i].resp = Resp(200, "sessACT=T1;sessACT=T2")
         /\ sent[i].before = PyStr("T3")
         /\ DictGet(sent[i + 1].fields, "sessACT", None) = PyStr("T2")

\* C5: after a real call that returns 200 the stored token is the token of the
\* body's 'sessACT=' item if it has one, else the token sent with the call; a real
\* call that returns another status or raises leaves the stored token as it was
\* when the call was sent.
C5_TokenAfterRealCall ==
    \A i \in 1..Len(sent) :
      IsReal(sent[i]) =>
        TokenAfter(i) =
          IF Is200(sent[i].resp)
          THEN IF BodyTokens(sent[i].resp.text) # <<>>
               THEN PyStr(BodyTokens(sent[i].resp.text)[1])
               ELSE DictGet(sent[i].fields, "sessACT", None)
          ELSE sent[i].before
C5_Witness ==
    /\ ReturnedRequest
    /\ IsReal(sent[Len(sent)])
    /\ sent[Len(sent)].resp = Resp(200, "ok=1;sessACT=T3")
    /\ DictGet(sent[Len(sent)].fields, "sessACT", None) = PyStr("T2")
    /\ sessACT = PyStr("T3")

\* the POSTs of this operation, in the order sent
Posts == SelectSeq(sent, LAMBDA e : e.path = SetPath)
\* the identifier a key is written under
KeyId(k) == IF SubSeq(k, 1, 1) = "v" THEN SubSeq(k, 2, Len(k)) ELSE k
\* the POST e writes the point of key k
WritesKey(e, k) == DictHas(e.fields, "str" \o KeyId(k)) \/ DictHas(e.fields, "commBtn" \o KeyId(k))

\* C6: set_data sends one POST per point in order and stops at the first point
\* whose POST fails: it returns failure, no request is sent after the failure,
\* the points before it were written and nothing undoes them; it returns success
\* only when the POST of every point succeeded.
C6_FailFast ==
    /\ call.op = "set_data" =>
         /\ Len(Posts) <= Len(call.batch)
         /\ \A i \in 1..Len(Posts) : WritesKey(Posts[i], call.batch[i].k)
         /\ \A i \in 1..(Len(Posts) - 1) : Is200(Posts[i].resp)
    /\ (pc = "returned" /\ call.op = "set_data") =>
         /\ ret.b <=> /\ Len(Posts) = Len(call.batch)
                      /\ \A i \in 1..Len(Posts) : Is200(Posts[i].resp)
         /\ ~ret.b =>
              \/ sent[Len(sent)].path = SetPath /\ ~Is200(sent[Len(sent)].resp)
              \/ /\ IsLogin(sent[Len(sent)])
                 /\ ~(Is200(sent[Len(sent)].resp)
                      /\ BodyTokens(sent[Len(sent)].resp.text) # <<>>)
C6_Witness ==
    /\ pc = "returned"
    /\ call.op = "set_data"
    /\ Len(call.batch) = 2
    /\ Len(Posts) = 1
    /\ ~Is200(Posts[1].resp)
    /\ ~ret.b

\* what the body of a read holds for a point, read off its text: pnt="raw";
RawCandidates == {"7", "No Support", "", "120", "100", "150", "0", "0.95", "--", "3", "4", "9"}
Occurs(text, part) ==
    \E i \in 1..(Len(text) - Len(part) + 1) : SubSeq(text, i, i + Len(part) - 1) = part
BodyHolds(text, pnt, raw) == Occurs(text, pnt \o "=\"" \o raw \o "\";")
Held(text, pnt) ==
    IF \E raw \in RawCandidates : BodyHolds(text, pnt, raw)
    THEN PyStr(CHOOSE raw \in RawCandidates : BodyHolds(text, pnt, raw))
    ELSE None
\* the last exchange is a read that returned a body with some item
ReadGotData ==
    /\ sent # <<>>
    /\ sent[Len(sent)].path = GetPath
    /\ Is200(sent[Len(sent)].resp)
    /\ sent[Len(sent)].resp.text # ""
ReadText == sent[Len(sent)].resp.text

\* two nested dicts have the same keys in the same nesting
RECURSIVE SameShape(_, _)
SameShape(res, mapping) ==
    /\ Len(res) = Len(mapping)
    /\ \A i \in 1..Len(res) :
         /\ res[i].k = mapping[i].k
         /\ res[i].v.d = mapping[i].v.d
         /\ res[i].v.d => SameShape(res[i].v.sub, mapping[i].v.sub)
ReturnedGetAll == pc = "returned" /\ call.op = "get_all"

\* C7 as claimed: for every outcome of the device call, get_all() returns a
\* nested mapping with the keys and the nesting of the declared point map.
C7_ShapeAlways ==
    ReturnedGetAll => SameShape(ret.res, ViewAt(call.view).mapping)

\* C7 as amended: get_all() returns a nested mapping with the keys and the
\* nesting of the declared point map whenever the device call returned a body
\* with at least one key=value item, whichever points that body holds; when the
\* request failed or the body has no such item it returns the empty mapping.
C7_ShapeWhenData ==
    ReturnedGetAll =>
        IF ReadGotData THEN SameShape(ret.res, ViewAt(call.view).mapping)
        ELSE ret.res = <<>>
C7_Witness ==
    /\ ReturnedGetAll
    /\ call.view = "output"
    /\ ReadGotData
    /\ Held(ReadText, PfPnt) = None
    /\ Held(ReadText, WattsPnt) = PyStr("120")
    /\ SameShape(ret.res, OutputMap)

\* the reads of this operation: the queries sent to the read endpoint
Reads == SelectSeq(sent, LAMBDA e : e.path = GetPath)
ReturnedGetAttr == pc = "returned" /\ call.op = "getattr"
\* the name read is in the registry (the flat points) of the view
InRegistry == DictHas(ViewAt(call.view).flat_points, call.name)
\* the name read is a nested category of the view's point map
NestedCategory ==
    \E i \in 1..Len(ViewAt(call.view).mapping) :
       /\ ViewAt(call.view).mapping[i].k = call.name
       /\ ViewAt(call.view).mapping[i].v.d
\* the point identifier the registry gives the name read
PointOf ==
    LET fp == ViewAt(call.view).flat_points
    IN fp[CHOOSE i \in 1..Len(fp) : fp[i].k = call.name].v.p
\* the read e asks for the point pnt and for nothing else
AsksOnly(e, pnt) ==
    /\ {e.fields[i].k : i \in 1..Len(e.fields)} = {"devId", "sessACT", pnt}
    /\ \E i \in 1..Len(e.fields) :
         e.fields[i].k = pnt /\ e.fields[i].v = PyStr("vel~pnt~" \o KeyId(pnt))
\* the placeholder for the unsupported value
Placeholder(v) == IF v = PyStr("No Support") THEN PyStr("--") ELSE v
\* the label of the source codes tried here
SourceLabel(v) ==
    CASE v = PyStr("3") -> PyStr("Normal")
      [] v = PyStr("7") -> PyStr("Normal")
      [] v = PyStr("4") -> PyStr("Bypass")
      [] v = PyStr("9") -> PyStr("Unknown (9)")
      [] OTHER -> v
\* what the device answered for the point read: None when no read was sent, the
\* read failed or its body leaves the point out
ReadValue ==
    IF Reads # <<>> /\ Is200(Reads[1].resp) THEN Held(Reads[1].resp.text, PointOf) ELSE None

\* C8 as claimed: for every name of a view's registry a single-attribute read
\* sends exactly one query to the read endpoint, for that name's point alone,
\* and returns the device's unquoted value for the point, '--' standing for
\* 'No Support'; a name neither in the registry nor a nested category raises
\* AttributeError and no query is sent.
C8_ExactlyOneQuery ==
    ReturnedGetAttr =>
        IF InRegistry
        THEN /\ ret.kind = "value"
             /\ Len(Reads) = 1
             /\ AsksOnly(Reads[1], PointOf)
             /\ Is200(Reads[1].resp) => ret.val = Placeholder(ReadValue)
        ELSE NestedCategory \/ (ret.kind = "raise" /\ sent = <<>>)

\* C8 as amended: a name that is a nested category of the view's point map
\* yields the category view and no request; any other name of the registry
\* sends at most one query to the read endpoint, exactly one when the request
\* gets past the login gate, for that name's point alone, and returns the
\* device's unquoted value for the point, '--' standing for 'No Support', as the
\* name's value processor (ups_source: the label of the source code) leaves it,
\* and None when no value was read; any other name raises AttributeError and
\* no request is sent.
C8_SingleRead ==
    ReturnedGetAttr =>
        IF NestedCategory THEN ret.kind = "view" /\ sent = <<>>
        ELSE IF InRegistry
        THEN /\ ret.kind = "value"
             /\ Len(Reads) <= 1
             /\ Len(Reads) = 1 <=> GatePassed
             /\ \A i \in 1..Len(Reads) : AsksOnly(Reads[i], PointOf)
             /\ ret.val = IF call.name = "ups_source"
                          THEN SourceLabel(Placeholder(ReadValue))
                          ELSE Placeholder(ReadValue)
        ELSE ret.kind = "raise" /\ sent = <<>>
C8_Witness ==
    /\ ReturnedGetAttr
    /\ call.view = "output.status"
    /\ call.name = "watts"
    /\ Len(Reads) = 1
    /\ ReadValue = PyStr("No Support")
    /\ ret.val = PyStr("--")

\* the field under which the POST e writes the point of key k, and its value
FieldOf(e, name) ==
    IF DictHas(e.fields, name) THEN e.fields[DictIdx(e.fields, name)].v ELSE None
\* the POST e encodes the pair (k, v) as the claim says
EncodedAsClaimed(e, k, v) ==
    CASE v.t = "str" /\ Occurs(v.v, "!~") -> DictHas(e.fields, "commBtn" \o KeyId(k))
      [] v.t = "str" /\ ~Occurs(v.v, "!~") ->
           FieldOf(e, "str" \o KeyId(k))
             = PyStr("vel~pnt~" \o KeyId(k) \o "~0|val~str~" \o v.v)
      [] v.t = "bool" ->
           FieldOf(e, "commBtn" \o KeyId(k))
             = PyStr("{0}vel~pnt~" \o KeyId(k) \o "~0|val~num~"
                     \o (IF v = PyBool(TRUE) THEN "1" ELSE "0"))
      [] OTHER -> TRUE

\* C9: for every point/value pair given to set_data the field is a commBtn
\* field when the value holds the command delimiter '!~' and a str field when it
\* is a plain string; a boolean is coerced before encoding, so that the payload
\* of True is 1 and of False is 0, never the text 'True' or 'False'.
C9_EncodedFields ==
    call.op = "set_data" =>
        \A i \in 1..Len(Posts) : EncodedAsClaimed(Posts[i], call.batch[i].k, call.batch[i].v)

\* the pf leaf of a get_all() result on the output subsystem or its status
PfResult ==
    IF call.view = "output"
    THEN LET st == ret.res[CHOOSE i \in 1..Len(ret.res) : ret.res[i].k = "status"].v.sub
         IN st[CHOOSE i \in 1..Len(st) : st[i].k = "pf"].v.val
    ELSE ret.res[CHOOSE i \in 1..Len(ret.res) : ret.res[i].k = "pf"].v.val
ReturnedOutputAll ==
    ReturnedGetAll /\ call.view \in {"output", "output.status"} /\ ReadGotData
\* watts / va to two decimals for the values tried here
Ratio(w, va) ==
    CASE w = PyStr("120") /\ va = PyStr("150") -> PyStr("0.80")
      [] w = PyStr("100") /\ va = PyStr("150") -> PyStr("0.67")
      [] w = PyStr("7") /\ va = PyStr("7") -> PyStr("1.00")
Derivable(w, va) ==
    \/ w \in {PyStr("120"), PyStr("100")} /\ va = PyStr("150")
    \/ w = PyStr("7") /\ va = PyStr("7")

\* C10 as claimed: in get_all() on the output subsystem the pf processor works
\* on the watts and va of the result built so far: with a missing or empty raw
\* pf the result is watts / va to two decimals ('0.80' for 120 and 150), and a
\* non-empty raw pf is returned unchanged.
C10_PfNonEmptyUnchanged ==
    ReturnedOutputAll =>
        LET raw == Held(ReadText, PfPnt)
            w == Held(ReadText, WattsPnt)
            va == Held(ReadText, VaPnt)
        IN IF raw \in {None, PyStr("")}
           THEN Derivable(w, va) => PfResult = Ratio(w, va)
           ELSE PfResult = raw

\* C10 as amended: with a raw pf that is missing, empty or the placeholder '--'
\* the result is watts / va of the same result group to two decimals when both
\* are numbers and va > 0 ('0.80' for 120 and 150) and the raw pf otherwise; any
\* other raw pf is returned unchanged.
C10_PfDerived ==
    ReturnedOutputAll =>
        LET raw == Held(ReadText, PfPnt)
            w == Held(ReadText, WattsPnt)
            va == Held(ReadText, VaPnt)
        IN IF raw \in {None, PyStr(""), PyStr("--")}
           THEN PfResult = IF Derivable(w, va) THEN Ratio(w, va) ELSE raw
           ELSE PfResult = raw
C10_Witness ==
    /\ ReturnedOutputAll
    /\ call.view = "output"
    /\ Held(ReadText, PfPnt) = PyStr("")
    /\ Held(ReadText, WattsPnt) = PyStr("120")
    /\ Held(ReadText, VaPnt) = PyStr("150")
    /\ PfResult = PyStr("0.80")

\* every leaf of a get_all() result whose point the body text holds as
\* 'No Support' is the placeholder '--'
RECURSIVE UnsupportedLeavesHold(_, _, _)
UnsupportedLeavesHold(res, mapping, text) ==
    \A i \in 1..Len(mapping) :
       IF mapping[i].v.d
       THEN UnsupportedLeavesHold(res[i].v.sub, mapping[i].v.sub, text)
       ELSE Held(text, mapping[i].v.p) = PyStr("No Support")
              => res[i].v.val = PyStr("--")

\* C11: in the result of get_all() every leaf whose raw device value is
\* 'No Support' holds the placeholder '--', the value a single-attribute read of
\* that name returns for the same device response.
C11_UnsupportedAsPlaceholder ==
    (ReturnedGetAll /\ ReadGotData) =>
        UnsupportedLeavesHold(ret.res, ViewAt(call.view).mapping, ReadText)

====
